---- MODULE Spec2Model ----
(***************************************************************************)
(* Witness-calculator host adapter of circom-compat.                       *)
(*                                                                         *)
(*   src/witness/memory.rs : SafeMemory, the field-element codec over the  *)
(*                           linear memory of the wasm instance            *)
(*   src/witness/circom.rs : Wasm, the adapter calling the exports         *)
(*                                                                         *)
(* Numbers wider than 31 bits are kept as little-endian byte sequences:    *)
(* a u32 is its to_le_bytes(), a BigUint is its trimmed byte magnitude and *)
(* a BigInt is a sign with a magnitude, as in num_bigint.                  *)
(***************************************************************************)
EXTENDS Integers, Sequences, FiniteSets, TLC

(***************************************************************************)
(* Bounds of the model.                                                    *)
(***************************************************************************)
\* bytes of linear memory (one wasm page, 65536 bytes, in the source's tests)
MemSize == 272
\* writes (write_u32, set_free_pos, write_fr) in one run of the codec
MaxWrites == 2
\* alloc_u32 / alloc_fr calls in one run of the allocator
MaxAllocs == 4
\* threads holding a clone of the Wasm and of the SafeMemory
NumThreads == 2
\* operations started, over all threads, in one run of the adapter
MaxOps == 2

(***************************************************************************)
(* Unsigned magnitudes: little-endian base-256 digits, no leading zero.    *)
(***************************************************************************)
Byte == 0..255

Max(a, b) == IF a >= b THEN a ELSE b

Digit(s, i) == IF i <= Len(s) THEN s[i] ELSE 0

RECURSIVE Trim(_)
Trim(s) == IF s = <<>> THEN <<>>
           ELSE IF s[Len(s)] = 0 THEN Trim(SubSeq(s, 1, Len(s) - 1))
           ELSE s

Pad(s, n) == [i \in 1..n |-> Digit(s, i)]

\* -1, 0, 1 as a is below, equal to, above b (both trimmed)
RECURSIVE MagCmpFrom(_, _, _)
MagCmpFrom(a, b, i) ==
    IF i = 0 THEN 0
    ELSE IF a[i] < b[i] THEN -1
    ELSE IF a[i] > b[i] THEN 1
    ELSE MagCmpFrom(a, b, i - 1)

MagCmp(a, b) ==
    IF Len(a) < Len(b) THEN -1
    ELSE IF Len(a) > Len(b) THEN 1
    ELSE MagCmpFrom(a, b, Len(a))

RECURSIVE AddDigits(_, _, _, _)
AddDigits(a, b, i, carry) ==
    IF i > Max(Len(a), Len(b))
    THEN (IF carry = 0 THEN <<>> ELSE <<carry>>)
    ELSE LET s == Digit(a, i) + Digit(b, i) + carry
         IN  <<s % 256>> \o AddDigits(a, b, i + 1, s \div 256)

MagAdd(a, b) == AddDigits(a, b, 1, 0)

\* a - b for a >= b
RECURSIVE SubDigits(_, _, _, _)
SubDigits(a, b, i, borrow) ==
    IF i > Len(a) THEN <<>>
    ELSE LET d == a[i] - Digit(b, i) - borrow
         IN  IF d < 0 THEN <<d + 256>> \o SubDigits(a, b, i + 1, 1)
                      ELSE <<d>> \o SubDigits(a, b, i + 1, 0)

MagSub(a, b) == Trim(SubDigits(a, b, 1, 0))

\* sum of a[i] * b[k + 1 - i] over the digits of column k
RECURSIVE ColSum(_, _, _, _)
ColSum(a, b, k, i) ==
    IF i > Len(a) \/ i > k THEN 0
    ELSE (IF k + 1 - i <= Len(b) THEN a[i] * b[k + 1 - i] ELSE 0)
         + ColSum(a, b, k, i + 1)

RECURSIVE MulCols(_, _, _, _)
MulCols(a, b, k, carry) ==
    IF k > Len(a) + Len(b) THEN <<>>
    ELSE LET s == carry + ColSum(a, b, k, 1)
         IN  <<s % 256>> \o MulCols(a, b, k + 1, s \div 256)

MagMul(a, b) == Trim(MulCols(a, b, 1, 0))

\* one bit of long division: r <- (2r + bit) mod p, for r < p
ModBit(r, bit, p) ==
    LET x == Trim(AddDigits(r, r, 1, bit))
    IN  IF MagCmp(x, p) >= 0 THEN MagSub(x, p) ELSE x

ModByte(r, d, p) ==
    LET r7 == ModBit(r,  (d \div 128) % 2, p)
        r6 == ModBit(r7, (d \div 64) % 2, p)
        r5 == ModBit(r6, (d \div 32) % 2, p)
        r4 == ModBit(r5, (d \div 16) % 2, p)
        r3 == ModBit(r4, (d \div 8) % 2, p)
        r2 == ModBit(r3, (d \div 4) % 2, p)
        r1 == ModBit(r2, (d \div 2) % 2, p)
    IN  ModBit(r1, d % 2, p)

\* digits hi down to lo of a shifted into the remainder r
RECURSIVE ModRange(_, _, _, _, _)
ModRange(a, p, lo, hi, r) ==
    IF lo > hi THEN r
    ELSE IF lo = hi THEN ModByte(r, a[lo], p)
    ELSE LET mid == (lo + hi) \div 2
             top == ModRange(a, p, mid + 1, hi, r)
         IN  IF Len(top) >= 0 THEN ModRange(a, p, lo, mid, top) ELSE <<>>

\* a mod p for p > 0
MagMod(a, p) == ModRange(a, p, 1, Len(a), <<>>)

\* bit `mask` (a power of two) of byte b
BitSet(b, mask) == (b \div mask) % 2 = 1

(***************************************************************************)
(* num_bigint::BigInt: a sign and a magnitude.                             *)
(***************************************************************************)
BigZero == [sign |-> "NoSign", mag |-> <<>>]

from_biguint(sign, mag) ==
    IF sign = "NoSign" \/ mag = <<>> THEN BigZero
    ELSE [sign |-> sign, mag |-> mag]

BigPos(mag) == from_biguint("Plus", Trim(mag))
BigNegOf(mag) == from_biguint("Minus", Trim(mag))

BigNeg(x) ==
    IF x.sign = "Plus" THEN [x EXCEPT !.sign = "Minus"]
    ELSE IF x.sign = "Minus" THEN [x EXCEPT !.sign = "Plus"]
    ELSE x

BigCmp(x, y) ==
    IF x.sign = "Minus"
    THEN (IF y.sign = "Minus" THEN MagCmp(y.mag, x.mag) ELSE -1)
    ELSE IF x.sign = "NoSign"
    THEN (IF y.sign = "Minus" THEN 1 ELSE IF y.sign = "NoSign" THEN 0 ELSE -1)
    ELSE (IF y.sign = "Plus" THEN MagCmp(x.mag, y.mag) ELSE 1)

BigAdd(x, y) ==
    IF x.sign = "NoSign" THEN y
    ELSE IF y.sign = "NoSign" THEN x
    ELSE IF x.sign = y.sign THEN [sign |-> x.sign, mag |-> MagAdd(x.mag, y.mag)]
    ELSE LET c == MagCmp(x.mag, y.mag)
         IN  IF c = 0 THEN BigZero
             ELSE IF c > 0 THEN [sign |-> x.sign, mag |-> MagSub(x.mag, y.mag)]
             ELSE [sign |-> y.sign, mag |-> MagSub(y.mag, x.mag)]

BigSub(x, y) == BigAdd(x, BigNeg(y))

BigMul(x, y) ==
    IF x.sign = "NoSign" \/ y.sign = "NoSign" THEN BigZero
    ELSE [sign |-> IF x.sign = y.sign THEN "Plus" ELSE "Minus",
          mag  |-> MagMul(x.mag, y.mag)]

\* the % of BigInt: the remainder takes the sign of the dividend
BigRem(x, y) == from_biguint(x.sign, MagMod(x.mag, y.mag))

\* Option<i32> of ToPrimitive::to_i32, then `as u32`: the four bytes
to_i32(x) ==
    IF x.sign = "Minus"
    THEN (IF MagCmp(x.mag, <<0, 0, 0, 128>>) <= 0
          THEN [some |-> TRUE, bytes |-> Pad(MagSub(<<0, 0, 0, 0, 1>>, x.mag), 4)]
          ELSE [some |-> FALSE, bytes |-> <<>>])
    ELSE (IF MagCmp(x.mag, <<0, 0, 0, 128>>) < 0
          THEN [some |-> TRUE, bytes |-> Pad(x.mag, 4)]
          ELSE [some |-> FALSE, bytes |-> <<>>])

\* Option<u32> of ToPrimitive::to_u32
to_u32(x) ==
    IF x.sign # "Minus" /\ Len(x.mag) <= 4
    THEN [some |-> TRUE, bytes |-> Pad(x.mag, 4)]
    ELSE [some |-> FALSE, bytes |-> <<>>]

\* From<u32> for BigInt
BigFromU32(bytes) == BigPos(bytes)

\* a small natural as a u32
U32(n) == <<n % 256, (n \div 256) % 256, (n \div 65536) % 256, n \div 16777216>>

(***************************************************************************)
(* SafeMemory: constants of SafeMemory::new.                               *)
(***************************************************************************)
\* FrConfig::MODULUS, the BN254 scalar field prime
MODULUS == <<1, 0, 0, 240, 147, 245, 225, 67, 145, 112, 185, 121, 72, 232, 51, 40,
             93, 88, 129, 129, 182, 69, 80, 184, 41, 160, 49, 225, 114, 78, 100, 48>>

\* the `prime` argument of SafeMemory::new
prime == BigPos(MODULUS)

short_max == BigPos(<<0, 0, 0, 128>>)

short_min == BigSub(from_biguint("NoSign", MODULUS), short_max)

r_inv == BigPos(<<78, 25, 177, 109, 5, 160, 91, 220, 135, 236, 17, 225, 169, 245, 14, 9,
                  93, 93, 184, 174, 228, 13, 38, 200, 28, 85, 197, 130, 81, 249, 235, 21>>)

\* bytes of a BigInteger256
BigInteger256Bytes == 32

(***************************************************************************)
(* wasmer::MemoryView: bounds-checked copies in and out of the memory.     *)
(***************************************************************************)
view_read(m, ptr, n) ==
    IF ptr + n > MemSize THEN [st |-> "err", bytes |-> <<>>]
    ELSE [st |-> "ok", bytes |-> [i \in 1..n |-> m[ptr + i - 1]]]

view_write(m, ptr, bytes) ==
    IF ptr + Len(bytes) > MemSize THEN [st |-> "err", mem |-> m]
    ELSE [st |-> "ok",
          mem |-> [a \in DOMAIN m |->
                     IF a >= ptr /\ a < ptr + Len(bytes) THEN bytes[a - ptr + 1]
                     ELSE m[a]]]

read_u8(m, ptr) ==
    IF ptr + 1 > MemSize THEN [st |-> "err", val |-> 0]
    ELSE [st |-> "ok", val |-> m[ptr]]

(***************************************************************************)
(* SafeMemory: the codec.  A result is a record with st in                 *)
(* {"ok", "err", "panic"}: Ok, Err and a panic of an unwrap or expect.     *)
(***************************************************************************)
free_pos(m) ==
    LET r == view_read(m, 0, 4)
    IN  IF r.st = "ok" THEN [st |-> "ok", val |-> r.bytes]
        ELSE [st |-> "panic", val |-> <<>>]

write_u32(m, ptr, num) ==
    LET r == view_write(m, ptr, num)
    IN  IF r.st = "ok" THEN r ELSE [st |-> "panic", mem |-> m]

set_free_pos(m, ptr) == write_u32(m, 0, ptr)

read_u32(m, ptr) ==
    LET r == view_read(m, ptr, 4)
    IN  IF r.st = "ok" THEN [st |-> "ok", val |-> r.bytes]
        ELSE [st |-> "panic", val |-> <<>>]

\* u32 addition: the sum and whether it left the 32 bits
U32Add(a, b) ==
    LET s == MagAdd(Trim(a), Trim(b))
    IN  [overflow |-> Len(s) > 4, val |-> Pad(s, 4)]

\* alloc_u32 advancing the cursor by the 4 bytes of the word alone
alloc_u32_by4(m, overflow_checks) ==
    LET p == free_pos(m)
        s == U32Add(p.val, U32(4))
        w == set_free_pos(m, s.val)
    IN  IF p.st # "ok" THEN [st |-> "panic", mem |-> m, val |-> <<>>]
        ELSE IF s.overflow /\ overflow_checks THEN [st |-> "panic", mem |-> m, val |-> <<>>]
        ELSE IF w.st # "ok" THEN [st |-> "panic", mem |-> m, val |-> <<>>]
        ELSE [st |-> "ok", mem |-> w.mem, val |-> p.val]

\* overflow_checks: the build panics on an arithmetic overflow (debug) or wraps
alloc_u32(m, overflow_checks) ==
    LET p == free_pos(m)
        s == U32Add(p.val, U32(8))
        w == set_free_pos(m, s.val)
    IN  IF p.st # "ok" THEN [st |-> "panic", mem |-> m, val |-> <<>>]
        ELSE IF s.overflow /\ overflow_checks THEN [st |-> "panic", mem |-> m, val |-> <<>>]
        ELSE IF w.st # "ok" THEN [st |-> "panic", mem |-> m, val |-> <<>>]
        ELSE [st |-> "ok", mem |-> w.mem, val |-> p.val]

alloc_fr(m, n32, overflow_checks) ==
    LET p  == free_pos(m)
        s1 == U32Add(p.val, U32(n32 * 4))
        s2 == U32Add(s1.val, U32(8))
        w  == set_free_pos(m, s2.val)
    IN  IF p.st # "ok" THEN [st |-> "panic", mem |-> m, val |-> <<>>]
        ELSE IF (s1.overflow \/ s2.overflow) /\ overflow_checks
             THEN [st |-> "panic", mem |-> m, val |-> <<>>]
        ELSE IF w.st # "ok" THEN [st |-> "panic", mem |-> m, val |-> <<>>]
        ELSE [st |-> "ok", mem |-> w.mem, val |-> p.val]

write_short_positive(m, ptr, fr) ==
    LET num == to_i32(fr)
        w1  == write_u32(m, ptr, num.bytes)
        w2  == write_u32(w1.mem, ptr + 4, U32(0))
    IN  IF ~num.some THEN [st |-> "panic", mem |-> m]
        ELSE IF w1.st # "ok" THEN w1
        ELSE w2

write_short_negative(m, ptr, fr) ==
    LET n1  == BigSub(fr, short_min)
        n2  == BigSub(n1, short_max)
        n3  == BigAdd(n2, BigPos(<<0, 0, 0, 0, 1>>))
        num == to_u32(n3)
        w1  == write_u32(m, ptr, num.bytes)
        w2  == write_u32(w1.mem, ptr + 4, U32(0))
    IN  IF ~num.some THEN [st |-> "panic", mem |-> m]
        ELSE IF w1.st # "ok" THEN w1
        ELSE w2

\* into_parts drops the sign; BigInteger256::try_from fails over 256 bits
write_big(m, ptr, num) ==
    IF Len(num.mag) > BigInteger256Bytes THEN [st |-> "panic", mem |-> m]
    ELSE view_write(m, ptr, Pad(num.mag, BigInteger256Bytes))

write_long_normal(m, ptr, fr) ==
    LET w1 == write_u32(m, ptr, U32(0))
        w2 == write_u32(w1.mem, ptr + 4, <<0, 0, 0, 128>>)
        w3 == write_big(w2.mem, ptr + 8, fr)
    IN  IF w1.st # "ok" THEN w1
        ELSE IF w2.st # "ok" THEN w2
        ELSE w3

write_fr(m, ptr, fr) ==
    IF BigCmp(fr, short_max) < 0 /\ BigCmp(fr, short_min) > 0
    THEN (IF BigCmp(fr, BigZero) >= 0
          THEN write_short_positive(m, ptr, fr)
          ELSE write_short_negative(m, ptr, fr))
    ELSE write_long_normal(m, ptr, fr)

\* copies limbs_32 * 32 bytes and deserializes the first BigInteger256 of them
read_big(m, ptr, n32) ==
    LET buf == view_read(m, ptr, n32 * 32)
    IN  IF buf.st # "ok" THEN [st |-> "err", val |-> BigZero]
        ELSE IF Len(buf.bytes) < BigInteger256Bytes THEN [st |-> "panic", val |-> BigZero]
        ELSE [st |-> "ok", val |-> BigPos(SubSeq(buf.bytes, 1, BigInteger256Bytes))]

read_fr(m, n32, ptr) ==
    LET tag   == read_u8(m, ptr + 4 + 3)
        big   == read_big(m, ptr + 8, n32)
        short == read_u8(m, ptr + 3)
        word  == read_u32(m, ptr)
    IN  IF tag.st # "ok" THEN [st |-> "err", val |-> BigZero]
        ELSE IF BitSet(tag.val, 128)
        THEN (IF big.st # "ok" THEN big
              ELSE IF BitSet(tag.val, 64)
              THEN [st |-> "ok", val |-> BigRem(BigMul(big.val, r_inv), prime)]
              ELSE big)
        ELSE IF short.st # "ok" THEN [st |-> "err", val |-> BigZero]
        ELSE IF word.st # "ok" THEN [st |-> "panic", val |-> BigZero]
        ELSE IF BitSet(short.val, 64)
        THEN [st |-> "ok",
              val |-> BigSub(BigFromU32(word.val), BigPos(<<0, 0, 0, 0, 1>>))]
        ELSE [st |-> "ok", val |-> BigFromU32(word.val)]

(***************************************************************************)
(* State.                                                                  *)
(***************************************************************************)
VARIABLES
    mem,        \* the bytes of the linear memory
    limbs_32,   \* SafeMemory.limbs_32
    panicked,   \* the (single) codec thread died in an unwrap or expect
    nWrites,    \* writes performed so far
    nAllocU32,  \* alloc_u32 calls that returned
    nAllocFr,   \* alloc_fr calls that returned
    otherWrite, \* a write other than an alloc happened
    lastWrite,  \* the last mutating codec call, its arguments and result
    lastRead    \* the last reading codec call since the last write

codecVars == <<mem, limbs_32, panicked, nWrites, nAllocU32, nAllocFr,
               otherWrite, lastWrite, lastRead>>

VARIABLES
    exports,       \* names in instance.exports
    pc,            \* per thread: where it is in its current operation
    cur,           \* per thread: the operation it runs
    mutex,         \* holder of Wasm.store (Arc<Mutex<Store>>), 0 when free
    guards,        \* per thread: read guards held on SafeMemory.store (Arc<RwLock<Store>>)
    nOps,          \* operations started
    initBegun,     \* init() was called
    initInvoked,   \* invocations of the export "init"
    initCompleted, \* invocations of the export "init" that returned without a trap
    callerObeys,   \* the callers called init() first, once, and waited for it
    lastResult     \* the last adapter operation that returned, and what it returned

wasmVars == <<exports, pc, cur, mutex, guards, nOps, initBegun, initInvoked,
              initCompleted, callerObeys, lastResult>>

vars == <<codecVars, wasmVars>>

NoCall == [op |-> "none"]

\* limbs_32 of safe_memory_testing_context
TestLimbs32 == 2

\* limbs_32 of the source's tests and of a 256-bit field element
Limbs32Set == {TestLimbs32, 8}

\* bytes alloc_fr reserves for one element
SlotSize(n32) == n32 * 4 + 8

Pow2_30 == <<0, 0, 0, 64>>
Pow2_31 == <<0, 0, 0, 128>>

\* field elements handed to write_fr
FrSet ==
    { BigZero,
      BigPos(<<64, 66, 15>>),                 \* 1_000_000
      BigPos(<<255, 255, 255, 63>>),          \* 2^30 - 1
      BigPos(Pow2_30),                        \* 2^30
      BigPos(<<255, 255, 255, 127>>),         \* 2^31 - 1
      BigPos(Pow2_31),                        \* 2^31 = short_max
      BigPos(<<0, 136, 82, 106, 116>>),       \* 500_000_000_000
      BigPos(MagSub(MODULUS, <<1>>)),         \* P - 1
      BigPos([i \in 1..33 |-> IF i = 33 THEN 1 ELSE 0]),  \* 2^256
      BigNegOf(<<64, 66, 15>>),               \* -1_000_000
      BigNegOf(Pow2_30),                      \* -2^30
      BigNegOf(<<1, 0, 0, 64>>),              \* -2^30 - 1
      BigNegOf(<<255, 255, 255, 127>>),       \* -(2^31 - 1)
      BigNegOf(Pow2_31),                      \* -2^31 = short_min
      BigNegOf(<<0, 136, 82, 106, 116>>) }    \* -500_000_000_000

\* offsets of field elements: the first two slots, the last slot, a torn one
FrPtrSet(n32) == {0, SlotSize(n32), MemSize - SlotSize(n32), MemSize - 2}

U32PtrSet == {0, 4, MemSize - 2}

U32Set == {U32(0), <<0, 0, 0, 192>>, <<255, 255, 255, 255>>}

FreePosSet == {U32(8), <<248, 255, 255, 255>>}

BigPtrSet == {8, MemSize - 8}

(***************************************************************************)
(* The codec, one action per public operation of SafeMemory.               *)
(***************************************************************************)
Threads == 1..NumThreads

NoOp == [op |-> "none"]

\* exports of every generation of the module
CommonExports == {"init", "getWitnessBuffer", "getPWitness", "getNVars",
                  "getSignalOffset32", "setSignal"}

\* a first-generation module: no getVersion
V1Exports == CommonExports \cup {"getFrLen", "getPRawPrime"}

\* a second-generation module
V2Exports == CommonExports \cup {"getVersion", "getFieldNumLen32", "getRawPrime",
                                 "readSharedRWMemory", "writeSharedRWMemory",
                                 "setInputSignal", "getWitness", "getWitnessSize"}

ExportTables == {V1Exports, V2Exports}

\* Wasm::new over an instance with export table `table`, cloned to the threads
WasmNew(table) ==
    /\ exports = table
    /\ pc = [t \in Threads |-> "idle"]
    /\ cur = [t \in Threads |-> NoOp]
    /\ mutex = 0
    /\ guards = [t \in Threads |-> <<>>]
    /\ nOps = 0
    /\ initBegun = FALSE
    /\ initInvoked = 0
    /\ initCompleted = 0
    /\ callerObeys = TRUE
    /\ lastResult = NoOp

\* SafeMemory::new(store, memory, n32, prime) over a fresh memory
SafeMemoryNew(n32) ==
    /\ mem = [a \in 0..(MemSize - 1) |-> 0]
    /\ limbs_32 = n32
    /\ panicked = FALSE
    /\ nWrites = 0
    /\ nAllocU32 = 0
    /\ nAllocFr = 0
    /\ otherWrite = FALSE
    /\ lastWrite = NoCall
    /\ lastRead = NoCall

\* the codec alone, as in the tests of memory.rs: a memory and no instance
Init == \E n32 \in Limbs32Set : SafeMemoryNew(n32) /\ WasmNew({})

Wrote(op, ptr, val, r) ==
    /\ mem' = r.mem
    /\ panicked' = (r.st = "panic")
    /\ nWrites' = nWrites + 1
    /\ otherWrite' = TRUE
    /\ lastWrite' = [op |-> op, ptr |-> ptr, val |-> val, st |-> r.st]
    /\ lastRead' = NoCall
    /\ UNCHANGED <<limbs_32, nAllocU32, nAllocFr>>
    /\ UNCHANGED wasmVars

Read(op, ptr, r) ==
    /\ panicked' = (r.st = "panic")
    /\ lastRead' = [op |-> op, ptr |-> ptr, st |-> r.st, val |-> r.val]
    /\ UNCHANGED <<mem, limbs_32, nWrites, nAllocU32, nAllocFr, otherWrite, lastWrite>>
    /\ UNCHANGED wasmVars

WriteFr ==
    /\ ~panicked /\ nWrites < MaxWrites
    /\ \E ptr \in FrPtrSet(limbs_32), fr \in FrSet :
          Wrote("write_fr", ptr, fr, write_fr(mem, ptr, fr))

WriteU32 ==
    /\ ~panicked /\ nWrites < MaxWrites
    /\ \E ptr \in U32PtrSet, num \in U32Set :
          Wrote("write_u32", ptr, num, write_u32(mem, ptr, num))

SetFreePos ==
    /\ ~panicked /\ nWrites < MaxWrites
    /\ \E ptr \in FreePosSet :
          Wrote("set_free_pos", 0, ptr, set_free_pos(mem, ptr))

ReadFr ==
    /\ ~panicked
    /\ \E ptr \in FrPtrSet(limbs_32) :
          Read("read_fr", ptr, read_fr(mem, limbs_32, ptr))

ReadU32 ==
    /\ ~panicked
    /\ \E ptr \in U32PtrSet :
          Read("read_u32", ptr, read_u32(mem, ptr))

ReadBig ==
    /\ ~panicked
    /\ \E ptr \in BigPtrSet :
          Read("read_big", ptr, read_big(mem, ptr, limbs_32))

FreePos ==
    /\ ~panicked
    /\ Read("free_pos", 0, free_pos(mem))

Next ==
    \/ WriteFr
    \/ WriteU32
    \/ SetFreePos
    \/ ReadFr
    \/ ReadU32
    \/ ReadBig
    \/ FreePos

Spec == Init /\ [][Next]_vars

(***************************************************************************)
(* Properties of the codec.                                                *)
(***************************************************************************)
\* short_min < v < short_max
IsShort(v) == BigCmp(v, short_max) < 0 /\ BigCmp(v, short_min) > 0

\* short_max <= v < P
IsLongNonNegative(v) == BigCmp(v, short_max) >= 0 /\ BigCmp(v, prime) < 0

\* a read_fr of the offset of the last write, with no write in between
ReadBack == lastRead.op = "read_fr" /\ lastWrite.op = "write_fr"
            /\ lastRead.ptr = lastWrite.ptr

\* C1: write_fr(ptr, v) of a short value (short_min < v < short_max) at an
\* in-bounds ptr, then read_fr(ptr), returns exactly v, for v >= 0 and v < 0.
C1_ShortRoundTrip ==
    (ReadBack /\ IsShort(lastWrite.val) /\ lastWrite.ptr + 8 <= MemSize)
        => (lastWrite.st = "ok" /\ lastRead.st = "ok" /\ lastRead.val = lastWrite.val)

\* C5: write_fr(ptr, v) of a long value short_max <= v < P whose element
\* (limbs_32 * 4 + 8 bytes) lies within the memory succeeds, and a following
\* read_fr(ptr) returns exactly v.
C5_LongRoundTrip ==
    (lastWrite.op = "write_fr" /\ IsLongNonNegative(lastWrite.val)
       /\ lastWrite.ptr + SlotSize(limbs_32) <= MemSize)
        => /\ lastWrite.st = "ok"
           /\ ReadBack => (lastRead.st = "ok" /\ lastRead.val = lastWrite.val)

\* C6: write_fr(ptr, v) of a negative long value (v <= short_min) does not
\* return Ok.
C6_NegativeLongRejected ==
    (lastWrite.op = "write_fr" /\ BigCmp(lastWrite.val, short_min) <= 0)
        => lastWrite.st # "ok"

\* bytes write_fr may change for value v: 8 for a short value, the slot otherwise
FrWidth(v, n32) == IF IsShort(v) THEN 8 ELSE SlotSize(n32)

\* C10: write_fr(ptr, v) changes no byte outside [ptr, ptr + 8) for a short v
\* and none outside [ptr, ptr + limbs_32 * 4 + 8) for a long v.
C10_WriteFrFrame ==
    [][(nWrites' = nWrites + 1 /\ lastWrite'.op = "write_fr")
         => \A a \in 0..(MemSize - 1) :
               (a < lastWrite'.ptr
                  \/ a >= lastWrite'.ptr + FrWidth(lastWrite'.val, limbs_32))
                 => mem'[a] = mem[a]]_vars

(***************************************************************************)
(* The allocator: alloc_u32 and alloc_fr over the cursor at offset 0.      *)
(***************************************************************************)
Allocated(op, r) ==
    /\ mem' = r.mem
    /\ panicked' = (r.st = "panic")
    /\ nAllocU32' = IF op = "alloc_u32" /\ r.st = "ok" THEN nAllocU32 + 1 ELSE nAllocU32
    /\ nAllocFr' = IF op = "alloc_fr" /\ r.st = "ok" THEN nAllocFr + 1 ELSE nAllocFr
    /\ lastWrite' = [op |-> op, before |-> free_pos(mem).val, val |-> r.val, st |-> r.st]
    /\ lastRead' = NoCall
    /\ UNCHANGED <<limbs_32, nWrites, otherWrite>>
    /\ UNCHANGED wasmVars

AllocU32 ==
    /\ ~panicked /\ nAllocU32 + nAllocFr < MaxAllocs
    /\ \E overflow_checks \in BOOLEAN :
          Allocated("alloc_u32", alloc_u32(mem, overflow_checks))

AllocFr ==
    /\ ~panicked /\ nAllocU32 + nAllocFr < MaxAllocs
    /\ \E overflow_checks \in BOOLEAN :
          Allocated("alloc_fr", alloc_fr(mem, limbs_32, overflow_checks))

NextAlloc ==
    \/ AllocU32
    \/ AllocFr
    \/ FreePos
    \/ SetFreePos
    \/ WriteU32
    \/ ReadU32

SpecAlloc == Init /\ [][NextAlloc]_vars

\* C7: from a cursor of 0, after a calls of alloc_u32 and b calls of alloc_fr in
\* any order and no other write, free_pos() is 8*a + (limbs_32*4 + 8)*b, and
\* each alloc call returned the value free_pos() had just before it.
C7_AllocCursor ==
    (~otherWrite /\ ~panicked) =>
        LET expected == U32(8 * nAllocU32 + SlotSize(limbs_32) * nAllocFr)
        IN  /\ free_pos(mem) = [st |-> "ok", val |-> expected]
            /\ lastRead.op = "free_pos"
                 => (lastRead.st = "ok" /\ lastRead.val = expected)
            /\ lastWrite.op \in {"alloc_u32", "alloc_fr"}
                 => (lastWrite.st = "ok" /\ lastWrite.val = lastWrite.before)

\* both allocators have advanced the cursor and free_pos() has read it
C7_Witness ==
    /\ ~otherWrite /\ ~panicked
    /\ nAllocU32 = 2 /\ nAllocFr = 1
    /\ lastRead.op = "free_pos"
    /\ lastWrite.op = "alloc_fr"

(***************************************************************************)
(* The adapter: threads calling the operations of clones of one Wasm, and  *)
(* of clones of the SafeMemory over the memory of the same instance.       *)
(*                                                                         *)
(* A thread is at one of                                                   *)
(*   "idle"     between operations                                         *)
(*   "lock"     at self.store.lock(), the export already looked up         *)
(*   "in_call"  inside func.call, the lock held                            *)
(*   "mem"      inside a codec operation                                   *)
(*   "dead"     unwound by a panic                                         *)
(* The lookups in instance.exports read no shared mutable state and are    *)
(* part of the step that follows them.  An export that is present has the  *)
(* signature of the table of exports and either returns or traps; what it  *)
(* does to the memory is not modelled.                                     *)
(***************************************************************************)
InitWasm == SafeMemoryNew(TestLimbs32) /\ \E table \in ExportTables : WasmNew(table)

\* values an export returning a u32 may return
RetSet == {1, 2}

\* names handed to get_u32 directly
U32Names == {"getNVars", "getWitnessSize"}

\* what an operation returns, of what its export did
Returned(op, st, val, calls, returned) ==
    [op |-> op, st |-> st, val |-> val, calls |-> calls, returned |-> returned]

\* self.func(name): the export, or a panic when the table lacks it
func(name) == IF name \in exports THEN "found" ELSE "panic"

\* the caller's side of an operation: init() is called first, once, and
\* nothing else is called until it has returned Ok
Obeys(op) == IF op = "init" THEN ~initBegun ELSE initCompleted >= 1

\* an operation of the shape  func(name); lock; call
Begin(t, op, export, ret) ==
    /\ pc[t] = "idle"
    /\ nOps < MaxOps
    /\ nOps' = nOps + 1
    /\ initBegun' = (initBegun \/ op = "init")
    /\ callerObeys' = (callerObeys /\ Obeys(op))
    /\ cur' = [cur EXCEPT ![t] = [op |-> op, export |-> export, ret |-> ret, calls |-> 0]]
    /\ pc' = [pc EXCEPT ![t] = IF func(export) = "found" THEN "lock" ELSE "dead"]
    /\ UNCHANGED <<exports, mutex, guards, initInvoked, initCompleted, lastResult>>
    /\ UNCHANGED codecVars

get_u32(t, name) == Begin(t, "get_u32", name, "u32")

init(t) == Begin(t, "init", "init", "unit")

get_ptr_witness_buffer(t) == Begin(t, "get_ptr_witness_buffer", "getWitnessBuffer", "u32")

get_ptr_witness(t) == Begin(t, "get_ptr_witness", "getPWitness", "u32")

\* get_n_vars with the export name of init pasted in
get_n_vars_init(t) == Begin(t, "get_n_vars", "init", "u32")

get_n_vars(t) == Begin(t, "get_n_vars", "getNVars", "u32")

get_signal_offset32(t) == Begin(t, "get_signal_offset32", "getSignalOffset32", "unit")

set_signal(t) == Begin(t, "set_signal", "setSignal", "unit")

get_fr_len(t) == Begin(t, "get_fr_len", "getFrLen", "u32")

get_ptr_raw_prime(t) == Begin(t, "get_ptr_raw_prime", "getPRawPrime", "u32")

get_field_num_len32(t) == Begin(t, "get_field_num_len32", "getFieldNumLen32", "u32")

get_raw_prime(t) == Begin(t, "get_raw_prime", "getRawPrime", "unit")

read_shared_rw_memory(t) == Begin(t, "read_shared_rw_memory", "readSharedRWMemory", "u32")

write_shared_rw_memory(t) == Begin(t, "write_shared_rw_memory", "writeSharedRWMemory", "unit")

set_input_signal(t) == Begin(t, "set_input_signal", "setInputSignal", "unit")

get_witness(t) == Begin(t, "get_witness", "getWitness", "unit")

get_witness_size(t) == Begin(t, "get_witness_size", "getWitnessSize", "u32")

\* get_version goes for the lock before it looks the export up
get_version(t) ==
    /\ pc[t] = "idle"
    /\ nOps < MaxOps
    /\ nOps' = nOps + 1
    /\ callerObeys' = (callerObeys /\ Obeys("get_version"))
    /\ cur' = [cur EXCEPT ![t] = [op |-> "get_version", export |-> "getVersion",
                                  ret |-> "u32", calls |-> 0]]
    /\ pc' = [pc EXCEPT ![t] = "lock"]
    /\ UNCHANGED <<exports, mutex, guards, initBegun, initInvoked, initCompleted,
                   lastResult>>
    /\ UNCHANGED codecVars

\* lock_call on a lock that excludes nobody, as a Mutex made anew for each clone
lock_call_own_mutex(t) ==
    /\ pc[t] = "lock"
    /\ cur[t].export \in exports
    /\ mutex' = t
    /\ pc' = [pc EXCEPT ![t] = "in_call"]
    /\ cur' = [cur EXCEPT ![t].calls = @ + 1]
    /\ initInvoked' = IF cur[t].export = "init" THEN initInvoked + 1 ELSE initInvoked
    /\ UNCHANGED <<exports, guards, nOps, initBegun, initCompleted, callerObeys,
                   lastResult>>
    /\ UNCHANGED codecVars

\* self.store.lock().unwrap() is granted and func.call(&mut store, ..) entered
lock_call(t) ==
    /\ pc[t] = "lock"
    /\ mutex = 0
    /\ cur[t].export \in exports
    /\ mutex' = t
    /\ pc' = [pc EXCEPT ![t] = "in_call"]
    /\ cur' = [cur EXCEPT ![t].calls = @ + 1]
    /\ initInvoked' = IF cur[t].export = "init" THEN initInvoked + 1 ELSE initInvoked
    /\ UNCHANGED <<exports, guards, nOps, initBegun, initCompleted, callerObeys,
                   lastResult>>
    /\ UNCHANGED codecVars

\* get_version_default looking getVersion up with self.func: the absence is fatal
get_version_default_fatal(t) ==
    /\ pc[t] = "lock"
    /\ mutex = 0
    /\ cur[t].op = "get_version"
    /\ "getVersion" \notin exports
    /\ lastResult' = Returned("get_version", "panic", 0, cur[t].calls, [kind |-> "none", v |-> 0])
    /\ pc' = [pc EXCEPT ![t] = "dead"]
    /\ UNCHANGED <<exports, cur, mutex, guards, nOps, initBegun, initInvoked,
                   initCompleted, callerObeys>>
    /\ UNCHANGED codecVars

\* get_version on a table without getVersion: the lock is granted, the match
\* takes its Err arm and the guard is dropped on the way out
get_version_default(t) ==
    /\ pc[t] = "lock"
    /\ mutex = 0
    /\ cur[t].op = "get_version"
    /\ "getVersion" \notin exports
    /\ lastResult' = Returned("get_version", "ok", 1, cur[t].calls, [kind |-> "none", v |-> 0])
    /\ pc' = [pc EXCEPT ![t] = "idle"]
    /\ cur' = [cur EXCEPT ![t] = NoOp]
    /\ UNCHANGED <<exports, mutex, guards, nOps, initBegun, initInvoked,
                   initCompleted, callerObeys>>
    /\ UNCHANGED codecVars

\* what the operation makes of the outcome of its call
Outcome(ret, trap, v) ==
    IF trap THEN [st |-> "err", val |-> 0]
    ELSE IF ret = "unit" THEN [st |-> "ok", val |-> 0]
    ELSE [st |-> "ok", val |-> v]

\* the export returns a value or traps; the guard is dropped as the operation returns
call_return(t) ==
    /\ pc[t] = "in_call"
    /\ \E trap \in BOOLEAN, v \in RetSet :
          /\ lastResult' = Returned(cur[t].op, Outcome(cur[t].ret, trap, v).st,
                                    Outcome(cur[t].ret, trap, v).val, cur[t].calls,
                                    [kind |-> IF trap THEN "trap" ELSE cur[t].ret,
                                     v |-> IF trap \/ cur[t].ret = "unit" THEN 0 ELSE v])
          /\ initCompleted' = IF cur[t].export = "init" /\ ~trap
                              THEN initCompleted + 1 ELSE initCompleted
    /\ pc' = [pc EXCEPT ![t] = "idle"]
    /\ cur' = [cur EXCEPT ![t] = NoOp]
    /\ mutex' = 0
    /\ UNCHANGED <<exports, guards, nOps, initBegun, initInvoked, callerObeys>>
    /\ UNCHANGED codecVars

(***************************************************************************)
(* Codec operations of the threads: every access to the memory is made     *)
(* under a guard of self.store.read(), by the writing operations too.  An  *)
(* operation is the sequence of its accesses: "r+" takes a guard to read,  *)
(* "w+" takes a guard to write, "-" drops the innermost guard.             *)
(***************************************************************************)
ReadAccess == <<"r+", "-">>
WriteAccess == <<"w+", "-">>

BeginMem(t, op, todo) ==
    /\ pc[t] = "idle"
    /\ nOps < MaxOps
    /\ nOps' = nOps + 1
    /\ cur' = [cur EXCEPT ![t] = [op |-> op, todo |-> todo]]
    /\ pc' = [pc EXCEPT ![t] = "mem"]
    /\ UNCHANGED <<exports, mutex, guards, initBegun, initInvoked, initCompleted,
                   callerObeys, lastResult>>
    /\ UNCHANGED codecVars

mem_free_pos(t) == BeginMem(t, "free_pos", ReadAccess)

mem_set_free_pos(t) == BeginMem(t, "set_free_pos", WriteAccess)

mem_alloc_u32(t) == BeginMem(t, "alloc_u32", ReadAccess \o WriteAccess)

mem_write_u32(t) == BeginMem(t, "write_u32", WriteAccess)

mem_read_u32(t) == BeginMem(t, "read_u32", ReadAccess)

mem_alloc_fr(t) == BeginMem(t, "alloc_fr", ReadAccess \o WriteAccess)

\* two words for a short value, two words and the limbs for a long one
mem_write_fr(t) ==
    \E long \in BOOLEAN :
        BeginMem(t, "write_fr",
                 WriteAccess \o WriteAccess \o (IF long THEN WriteAccess ELSE <<>>))

\* the guard of read_fr is held over the nested read_big or read_u32
mem_read_fr(t) == BeginMem(t, "read_fr", <<"r+", "r+", "-", "-">>)

mem_read_big(t) == BeginMem(t, "read_big", ReadAccess)

\* self.store.read().unwrap(): no thread ever takes the lock for writing
store_read(t) ==
    /\ pc[t] = "mem"
    /\ cur[t].todo # <<>>
    /\ Head(cur[t].todo) \in {"r+", "w+"}
    /\ guards' = [guards EXCEPT ![t] =
                    Append(@, IF Head(cur[t].todo) = "r+" THEN "read" ELSE "write")]
    /\ cur' = [cur EXCEPT ![t].todo = Tail(@)]
    /\ UNCHANGED <<exports, pc, mutex, nOps, initBegun, initInvoked, initCompleted,
                   callerObeys, lastResult>>
    /\ UNCHANGED codecVars

\* the access is over and its guard goes out of scope
drop_guard(t) ==
    /\ pc[t] = "mem"
    /\ cur[t].todo # <<>>
    /\ Head(cur[t].todo) = "-"
    /\ guards' = [guards EXCEPT ![t] = SubSeq(@, 1, Len(@) - 1)]
    /\ cur' = [cur EXCEPT ![t] = IF Tail(cur[t].todo) = <<>> THEN NoOp
                                  ELSE [@ EXCEPT !.todo = Tail(@)]]
    /\ pc' = [pc EXCEPT ![t] = IF Tail(cur[t].todo) = <<>> THEN "idle" ELSE "mem"]
    /\ UNCHANGED <<exports, mutex, nOps, initBegun, initInvoked, initCompleted,
                   callerObeys, lastResult>>
    /\ UNCHANGED codecVars

NextWasm ==
    \E t \in Threads :
        \/ init(t)
        \/ get_ptr_witness_buffer(t)
        \/ get_ptr_witness(t)
        \/ get_n_vars(t)
        \/ get_signal_offset32(t)
        \/ set_signal(t)
        \/ get_version(t)
        \/ \E name \in U32Names : get_u32(t, name)
        \/ get_fr_len(t)
        \/ get_ptr_raw_prime(t)
        \/ get_field_num_len32(t)
        \/ get_raw_prime(t)
        \/ read_shared_rw_memory(t)
        \/ write_shared_rw_memory(t)
        \/ set_input_signal(t)
        \/ get_witness(t)
        \/ get_witness_size(t)
        \/ lock_call(t)
        \/ get_version_default(t)
        \/ call_return(t)
        \/ mem_free_pos(t)
        \/ mem_set_free_pos(t)
        \/ mem_alloc_u32(t)
        \/ mem_write_u32(t)
        \/ mem_read_u32(t)
        \/ mem_alloc_fr(t)
        \/ mem_write_fr(t)
        \/ mem_read_fr(t)
        \/ mem_read_big(t)
        \/ store_read(t)
        \/ drop_guard(t)

SpecWasm == InitWasm /\ [][NextWasm]_vars

(***************************************************************************)
(* Properties of the adapter and of the locks.                             *)
(***************************************************************************)
InCall(t) == pc[t] = "in_call"

\* the thread is inside an access to the memory
Accessing(t) == guards[t] # <<>>

\* the thread is inside a writing access to the memory
Writing(t) == \E i \in 1..Len(guards[t]) : guards[t][i] = "write"

\* C2: a codec access to the memory is never in progress while an export is
\* in flight: the codec and the adapter guard the instance with the same lock.
C2_SameLock ==
    \A t1, t2 \in Threads : ~(InCall(t1) /\ Accessing(t2))

\* C3: a codec write is never in progress at the same time as a codec read or
\* another codec write of another clone (reads may overlap with each other).
C3_WriteExcludes ==
    \A t1, t2 \in Threads : t1 # t2 => ~(Writing(t1) /\ Accessing(t2))

\* C4: at most one export is in flight; it runs with the store lock held, and
\* the lock is released once the call has returned or failed.
C4_OneExportInFlight ==
    /\ Cardinality({t \in Threads : InCall(t)}) <= 1
    /\ \A t \in Threads : InCall(t) <=> mutex = t

\* one thread is inside an export while another waits for the lock
C4_Witness ==
    \E t1, t2 \in Threads :
        /\ t1 # t2
        /\ InCall(t1) /\ mutex = t1
        /\ pc[t2] = "lock" /\ cur[t2].export \in exports

\* C8: init is invoked exactly once and before any other export: no other
\* export runs before init has completed, and init is not invoked again.
C8_InitOnceFirst ==
    /\ initInvoked <= 1
    /\ \A t \in Threads :
          (InCall(t) /\ cur[t].export # "init") => initCompleted >= 1

\* C8, amended: the same, for callers that call init() first, once, and start
\* nothing else before it has returned Ok.
C8_InitOnceFirstForObedientCaller == callerObeys => C8_InitOnceFirst

\* init has completed and an obedient caller is inside another export
C8_Witness ==
    /\ callerObeys
    /\ initInvoked = 1 /\ initCompleted = 1
    /\ \E t \in Threads : InCall(t) /\ cur[t].export # "init"

\* the thread is in an adapter operation that goes through self.func
ViaFunc(t) == pc[t] \in {"lock", "in_call", "dead"} /\ cur[t].op # "get_version"

\* C9: get_version without a getVersion export returns Ok(1) and invokes
\* nothing; with one it invokes it once and returns what it returned.  Any
\* other operation whose export is absent panics in func and invokes nothing.
C9_VersionDefault ==
    /\ lastResult.op = "get_version" =>
          IF "getVersion" \notin exports
          THEN lastResult.st = "ok" /\ lastResult.val = 1 /\ lastResult.calls = 0
          ELSE /\ lastResult.calls = 1
               /\ lastResult.returned.kind = "trap" => lastResult.st = "err"
               /\ lastResult.returned.kind # "trap" =>
                     (lastResult.st = "ok" /\ lastResult.val = lastResult.returned.v)
    /\ \A t \in Threads :
          /\ InCall(t) => cur[t].export \in exports
          /\ (ViaFunc(t) /\ cur[t].export \notin exports) =>
                (pc[t] = "dead" /\ cur[t].calls = 0)
          /\ (ViaFunc(t) /\ cur[t].export \in exports) => pc[t] # "dead"

\* get_version has fallen back to 1 and another operation has died in func
C9_Witness ==
    /\ "getVersion" \notin exports
    /\ lastResult.op = "get_version" /\ lastResult.st = "ok"
    /\ \E t \in Threads : pc[t] = "dead" /\ cur[t].export \notin exports

====
